---- MODULE Spec2Model ----
(***************************************************************************)
(* A model of the lilypads object pools.                                   *)
(*                                                                         *)
(*   - AcceleratedBitmap (src/src/bitmap.rs): a bit set of 64-bit base     *)
(*     words with stacked acceleration layers of 2x32-bit summary words.   *)
(*   - Pond (src/src/pondaos.rs): Vec<MaybeUninit<T>> + AcceleratedBitmap. *)
(*   - NodeField (src/src/lib.rs): Vec<MemorySlot<T>> with an intrusive    *)
(*     free list and reference counts.                                     *)
(*   - FullFlatBinaryTree (src/src/binary_tree.rs): a flat in-order tree   *)
(*     of full/empty bits over a power-of-two number of leaves.            *)
(*                                                                         *)
(* Four machines share the module, each leaving the others' variables      *)
(* alone: Spec (Pond), NfSpec (NodeField), BmSpec (AcceleratedBitmap on    *)
(* its own) and FtSpec (FullFlatBinaryTree).                               *)
(*                                                                         *)
(* A u64 is modelled as the set of its set bit positions (a subset of      *)
(* 0..63), a Vec as a sequence; Rust index k is sequence index k+1.        *)
(* A panic (index out of bounds, arithmetic overflow) is an explicit       *)
(* outcome: the operators return ok |-> FALSE and the machine stops.       *)
(***************************************************************************)
EXTENDS Integers, Sequences, FiniteSets, TLC

VARIABLES pond, pond_panicked, last, ops, nf, nf_panicked, nf_last,
          bmap, bm_size, bm_panicked, bm_last, bm_ops,
          ft, ft_panicked, ft_last, ft_ops

vars == <<pond, pond_panicked, last, ops, nf, nf_panicked, nf_last,
          bmap, bm_size, bm_panicked, bm_last, bm_ops,
          ft, ft_panicked, ft_last, ft_ops>>
pond_vars == <<pond, pond_panicked, last, ops>>
nf_vars == <<nf, nf_panicked, nf_last>>
bm_vars == <<bmap, bm_size, bm_panicked, bm_last, bm_ops>>
ft_vars == <<ft, ft_panicked, ft_last, ft_ops>>

(***************************************************************************)
(* Bounds of the model.                                                    *)
(***************************************************************************)
\* number of Pond operations applied after construction
MaxOps == 3
\* largest NodeField memory that push grows
MaxMem == 3
\* largest reference count add_ref is driven to
MaxRc == 2
\* number of AcceleratedBitmap operations applied after construction
MaxBmOps == 5
\* number of FullFlatBinaryTree operations applied after construction
MaxFtOps == 4

\* values stored in the pools
Values == {1, 2}
\* indices handed to Pond::write and Pond::free
Idx == {0, 32, 40, 70}
\* sizes handed to Pond::resize
Sizes == {0, 3, 33, 66}
\* lengths of the fully occupied pools a Pond is deserialized from
InitLens == {3, 33, 64}
\* sizes handed to AcceleratedBitmap::resize
BmSizes == {0, 3, 63, 64}
\* indices handed to AcceleratedBitmap::set
BmIdx == {0, 2, 62, 63}
\* sizes handed to FullFlatBinaryTree::resize
FtSizes == {0, 1, 3, 5, 8}
\* leaf indices handed to FullFlatBinaryTree::set_leaf and get_leaf
FtIdx == {0, 1, 2, 4, 7}
\* sizes of the filled trees a run starts from
FtInitSizes == {3, 8}

(***************************************************************************)
(* Option<T>                                                               *)
(***************************************************************************)
None == [some |-> FALSE, v |-> 0]
Some(x) == [some |-> TRUE, v |-> x]

\* a MaybeUninit cell that holds no live value
Uninit == 0

SetMin(S) == CHOOSE x \in S : \A y \in S : x <= y
SetMax(S) == CHOOSE x \in S : \A y \in S : x >= y

(***************************************************************************)
(* u64 words as sets of bit positions, usize arithmetic on naturals.       *)
(***************************************************************************)
WordBits == 0 .. 63
\* !0u64
AllOnes == WordBits
WNot(w) == WordBits \ w
WAnd(a, b) == a \cap b
WOr(a, b) == a \cup b
WShl(w, n) == {b + n : b \in w} \cap WordBits
WShr(w, n) == {b - n : b \in w} \cap WordBits
\* 1 << n
Bit(n) == {n}
\* (w as u32).trailing_ones()
TrailingOnes32(w) ==
  CHOOSE n \in 0 .. 32 : (n = 32 \/ n \notin w) /\ \A m \in 0 .. n - 1 : m \in w
\* w.trailing_ones() on the whole u64
TrailingOnes64(w) ==
  CHOOSE n \in 0 .. 64 : (n = 64 \/ n \notin w) /\ \A m \in 0 .. n - 1 : m \in w

Pow2(n) == 2 ^ n
\* x >> s and x << s on usize (no overflow at the modelled sizes)
Shr(x, s) == x \div Pow2(s)
Shl(x, s) == x * Pow2(s)
\* x & mask for a mask of the form 2^k - 1
AndMask(x, mask) == x % (mask + 1)

\* Vec::resize(n, fill)
VecResize(v, n, fill) == [i \in 1 .. n |-> IF i <= Len(v) THEN v[i] ELSE fill]
\* v[k] with Rust's 0-based index
At(v, k) == v[k + 1]
\* v[k] = x
Put(v, k, x) == [v EXCEPT ![k + 1] = x]

(***************************************************************************)
(* AcceleratedBitmap                                                       *)
(***************************************************************************)
BASE_MASK == 63
BASE_SHIFT == 6
ACCEL_MASK == 31
ACCEL_SHIFT == 5
\* !0 << 32 : the second 32 bits (empty tracking)
UNSET_FULL == WShl(AllOnes, 32)
\* !0 >> 32 : the first 32 bits (full tracking)
SET_FULL == WShr(AllOnes, 32)

\* AcceleratedBitmap::new(layers)
bm_new(layers) == [base |-> <<>>, accel_layers |-> [l \in 1 .. layers |-> <<>>]]

\* the layer loop of AcceleratedBitmap::resize, from layer l on; fwc is
\* full_word_count as left by the layers below
RECURSIVE bm_resize_layers(_, _, _, _)
bm_resize_layers(layers, l, size, fwc) ==
  IF l > Len(layers) THEN layers
  ELSE LET offset == AndMask(size, ACCEL_MASK)
           fwc2 == Shr(fwc, ACCEL_SHIFT)
           grown == VecResize(layers[l], size + 1, {})
           set_mask == WShr(SET_FULL, 32 - offset)
           unset_mask == WAnd(WShr(UNSET_FULL, 32 - offset), UNSET_FULL)
           masked == Put(grown, fwc2, WAnd(At(grown, fwc2), WOr(unset_mask, set_mask)))
       IN bm_resize_layers([layers EXCEPT ![l] = masked], l + 1, size, fwc2)

\* a resize that does not zero the leftovers of the last base word
bm_resize_no_mask(bm, size) ==
  LET full_word_count == Shr(size, BASE_SHIFT)
  IN [base |-> VecResize(bm.base, full_word_count + 1, {}),
      accel_layers |-> bm_resize_layers(bm.accel_layers, 1, size, full_word_count)]

\* AcceleratedBitmap::resize
bm_resize(bm, size) ==
  LET offset == AndMask(size, BASE_MASK)
      full_word_count == Shr(size, BASE_SHIFT)
      grown == VecResize(bm.base, full_word_count + 1, {})
      base2 == Put(grown, full_word_count,
                   WAnd(At(grown, full_word_count), WNot(WShl(AllOnes, offset))))
  IN [base |-> base2,
      accel_layers |-> bm_resize_layers(bm.accel_layers, 1, size, full_word_count)]

\* the descent of AcceleratedBitmap::first_free through the layers below the
\* last one (l = number of layers still to visit) and then the base
RECURSIVE bm_descend(_, _, _)
bm_descend(bm, l, idx) ==
  IF l = 0
  THEN IF idx >= Len(bm.base) THEN [ok |-> FALSE, ret |-> None]
       ELSE [ok |-> TRUE,
             ret |-> Some(Shl(idx, BASE_SHIFT) + TrailingOnes32(At(bm.base, idx)))]
  ELSE IF idx >= Len(bm.accel_layers[l]) THEN [ok |-> FALSE, ret |-> None]
       ELSE bm_descend(bm, l - 1,
                       Shl(idx, ACCEL_SHIFT) + TrailingOnes32(At(bm.accel_layers[l], idx)))

\* AcceleratedBitmap::first_free: ok |-> FALSE is an index-out-of-bounds panic
bm_first_free(bm) ==
  LET n == Len(bm.accel_layers)
      top == bm.accel_layers[n]
      hit(k) == At(top, k) # SET_FULL
  IN IF \A k \in 0 .. Len(top) - 1 : ~hit(k) THEN [ok |-> TRUE, ret |-> None]
     ELSE LET val == CHOOSE k \in 0 .. Len(top) - 1 :
                       hit(k) /\ \A j \in 0 .. k - 1 : ~hit(j)
          IN bm_descend(bm, n - 1, Shl(val, ACCEL_SHIFT) + TrailingOnes64(At(top, val)))

\* the layer loop of AcceleratedBitmap::set, from layer l on
RECURSIVE bm_set_layers(_, _, _, _, _)
bm_set_layers(layers, l, idx, is_full, is_empty) ==
  IF l > Len(layers) THEN [ok |-> TRUE, layers |-> layers]
  ELSE LET offset == AndMask(idx, ACCEL_MASK)
           bit == Bit(offset)
           idx2 == Shr(idx, ACCEL_SHIFT)
       IN IF idx2 >= Len(layers[l]) THEN [ok |-> FALSE, layers |-> layers]
          ELSE LET w0 == At(layers[l], idx2)
                   w1 == IF is_full THEN WOr(w0, bit) ELSE WAnd(w0, WNot(bit))
                   w2 == IF is_empty THEN WOr(w1, WShl(bit, 32))
                                     ELSE WAnd(w1, WNot(WShl(bit, 32)))
               IN bm_set_layers([layers EXCEPT ![l] = Put(layers[l], idx2, w2)], l + 1, idx2,
                                WAnd(w2, SET_FULL) = SET_FULL,
                                WAnd(w2, UNSET_FULL) = UNSET_FULL)

\* AcceleratedBitmap::set: ok |-> FALSE is an index-out-of-bounds panic
bm_set(bm, idx, value) ==
  LET offset == AndMask(idx, BASE_MASK)
      bit == Bit(offset)
      widx == Shr(idx, BASE_SHIFT)
  IN IF widx >= Len(bm.base) THEN [ok |-> FALSE, bm |-> bm]
     ELSE LET w == IF value THEN WOr(At(bm.base, widx), bit)
                            ELSE WAnd(At(bm.base, widx), WNot(bit))
              r == bm_set_layers(bm.accel_layers, 1, widx, w = AllOnes, w = {})
          IN [ok |-> r.ok,
              bm |-> [base |-> Put(bm.base, widx, w), accel_layers |-> r.layers]]

\* whether AcceleratedBitmap::is_set(idx) indexes inside self.base
bm_is_set_ok(bm, idx) == Shr(idx, BASE_SHIFT) < Len(bm.base)

\* AcceleratedBitmap::is_set (where it does not panic)
bm_is_set(bm, idx) ==
  bm_is_set_ok(bm, idx) /\ AndMask(idx, BASE_MASK) \in At(bm.base, Shr(idx, BASE_SHIFT))

(***************************************************************************)
(* Pond: data : Vec<MaybeUninit<T>>, bitmap : AcceleratedBitmap.            *)
(* A cell is Uninit or the live value it holds.  Pure operators return     *)
(* [ok, p, ret]; ok |-> FALSE is a panic.                                  *)
(***************************************************************************)
\* Pond::new
pond_new == [data |-> <<>>, bitmap |-> bm_new(3)]

\* Pond::len
pond_len(p) == Len(p.data)

\* Pond::is_occupied
pond_is_occupied(p, idx) == IF idx < Len(p.data) THEN bm_is_set(p.bitmap, idx) ELSE FALSE

\* Pond::get
pond_get(p, idx) == IF ~pond_is_occupied(p, idx) THEN None ELSE Some(At(p.data, idx))

\* Pond::next_index: ok |-> FALSE when first_free panics
pond_next_index(p) ==
  LET found(ff) == [ok |-> ff.ok, ret |-> IF ff.ret.some THEN ff.ret.v ELSE pond_len(p)]
  IN found(bm_first_free(p.bitmap))

\* a resize that starts the bitmap afresh instead of resizing it
pond_resize_fresh_bitmap(p, size) ==
  [ok |-> \A idx \in size .. pond_len(p) - 1 : bm_is_set_ok(p.bitmap, idx),
   p |-> [data |-> VecResize(p.data, size, Uninit),
          bitmap |-> bm_resize(bm_new(3), size)],
   dropped |-> {idx \in size .. pond_len(p) - 1 : bm_is_set(p.bitmap, idx)}]

\* Pond::resize: the cells at or above size whose bit is set are dropped, the
\* Vec is cut or extended with uninitialized cells, the bitmap is resized
pond_resize(p, size) ==
  [ok |-> \A idx \in size .. pond_len(p) - 1 : bm_is_set_ok(p.bitmap, idx),
   p |-> [data |-> VecResize(p.data, size, Uninit),
          bitmap |-> bm_resize(p.bitmap, size)],
   dropped |-> {idx \in size .. pond_len(p) - 1 : bm_is_set(p.bitmap, idx)}]

\* if idx >= self.len() { self.resize(idx + extra) }   (extra is 1 in the code)
pond_grow_to(p, idx, extra) ==
  IF idx >= pond_len(p) THEN pond_resize(p, idx + extra)
  ELSE [ok |-> TRUE, p |-> p, dropped |-> {}]

\* Pond::mark_reserved / Pond::mark_free
pond_mark(p, idx, value) ==
  LET marked(r) == [ok |-> r.ok, p |-> [p EXCEPT !.bitmap = r.bm]]
  IN marked(bm_set(p.bitmap, idx, value))

\* a reserve that grows the pool one slot further than the index it hands out
pond_reserve_overgrow(p) ==
  LET marked(idx, mk) == [ok |-> mk.ok, p |-> mk.p, idx |-> idx]
      grown(idx, rz) == IF ~rz.ok THEN [ok |-> FALSE, p |-> p, idx |-> idx]
                        ELSE marked(idx, pond_mark(rz.p, idx, TRUE))
      found(ff) == IF ~ff.ok THEN [ok |-> FALSE, p |-> p, idx |-> 0]
                   ELSE grown(ff.ret, pond_grow_to(p, ff.ret, 2))
  IN found(pond_next_index(p))

\* Pond::reserve: found is the code after first_free().unwrap_or(len()),
\* grown the code after the resize, marked the code after mark_reserved
pond_reserve(p) ==
  LET marked(idx, mk) == [ok |-> mk.ok, p |-> mk.p, idx |-> idx]
      grown(idx, rz) == IF ~rz.ok THEN [ok |-> FALSE, p |-> p, idx |-> idx]
                        ELSE marked(idx, pond_mark(rz.p, idx, TRUE))
      found(ff) == IF ~ff.ok THEN [ok |-> FALSE, p |-> p, idx |-> 0]
                   ELSE grown(ff.ret, pond_grow_to(p, ff.ret, 1))
  IN found(pond_next_index(p))

\* Pond::insert: the cell is written without reading or dropping what it held
pond_insert(p, v) ==
  LET reserved(r) ==
        IF ~r.ok THEN [ok |-> FALSE, p |-> p, ret |-> None]
        ELSE IF r.idx >= pond_len(r.p) THEN [ok |-> FALSE, p |-> r.p, ret |-> None]
        ELSE [ok |-> TRUE, p |-> [r.p EXCEPT !.data = Put(r.p.data, r.idx, v)],
              ret |-> Some(r.idx)]
  IN reserved(pond_reserve(p))

\* a write that stores the value and forgets mark_reserved
pond_write_no_mark(p, idx, new_data) ==
  LET grown(rz) ==
        IF ~rz.ok THEN [ok |-> FALSE, p |-> p, ret |-> None]
        ELSE [ok |-> TRUE, p |-> [rz.p EXCEPT !.data = Put(rz.p.data, idx, new_data)],
              ret |-> pond_get(rz.p, idx)]
  IN grown(pond_grow_to(p, idx, 1))

\* a write that grows the pool one slot further than the index it writes
pond_write_overgrow(p, idx, new_data) ==
  LET marked(old_value, mk) == [ok |-> mk.ok, p |-> mk.p, ret |-> old_value]
      grown(rz) ==
        IF ~rz.ok THEN [ok |-> FALSE, p |-> p, ret |-> None]
        ELSE marked(pond_get(rz.p, idx),
                    pond_mark([rz.p EXCEPT !.data = Put(rz.p.data, idx, new_data)], idx, TRUE))
  IN grown(pond_grow_to(p, idx, 2))

\* Pond::write: grown is the code after the resize, marked the code after
\* mark_reserved, old_value is read before the cell is written
pond_write(p, idx, new_data) ==
  LET marked(old_value, mk) == [ok |-> mk.ok, p |-> mk.p, ret |-> old_value]
      grown(rz) ==
        IF ~rz.ok THEN [ok |-> FALSE, p |-> p, ret |-> None]
        ELSE marked(pond_get(rz.p, idx),
                    pond_mark([rz.p EXCEPT !.data = Put(rz.p.data, idx, new_data)], idx, TRUE))
  IN grown(pond_grow_to(p, idx, 1))

\* a free that moves the value out and forgets mark_free
pond_free_keeps_bit(p, idx) ==
  IF ~pond_is_occupied(p, idx) THEN [ok |-> TRUE, p |-> p, ret |-> None]
  ELSE [ok |-> TRUE, p |-> [p EXCEPT !.data = Put(p.data, idx, Uninit)],
        ret |-> Some(At(p.data, idx))]

\* Pond::free: the value is moved out of the cell
pond_free(p, idx) ==
  LET marked(mk) == [ok |-> mk.ok,
                     p |-> [mk.p EXCEPT !.data = Put(mk.p.data, idx, Uninit)],
                     ret |-> Some(At(p.data, idx))]
  IN IF ~pond_is_occupied(p, idx) THEN [ok |-> TRUE, p |-> p, ret |-> None]
     ELSE marked(pond_mark(p, idx, FALSE))

\* HashMap::insert on a map kept as a function
MapInsert(m, k, x) == [j \in DOMAIN m \cup {k} |-> IF j = k THEN x ELSE m[j]]
EmptyMap == [j \in {} |-> 0]

\* Vec::swap
VecSwap(v, a, b) == [v EXCEPT ![a + 1] = v[b + 1], ![b + 1] = v[a + 1]]

\* the scan  for idx in (free .. last_full).rev()  of Pond::defrag: the
\* highest index of the range whose bit is set, or full (unchanged) when the
\* range holds none
pond_defrag_scan(p, free, last_full, full) ==
  LET highest(hits) == IF hits = {} THEN full ELSE SetMax(hits)
  IN highest({idx \in free .. last_full - 1 : bm_is_set(p.bitmap, idx)})

\* the body of the while loop of Pond::defrag after the scan set full:
\* data.swap(free, full); bitmap.set(full, false); bitmap.set(free, true)
pond_defrag_move(p, free, full) ==
  LET cleared(m1) == IF ~m1.ok THEN [ok |-> FALSE, p |-> p]
                     ELSE pond_mark(m1.p, free, TRUE)
  IN cleared(pond_mark([p EXCEPT !.data = VecSwap(p.data, free, full)], full, FALSE))

\* one pass of  while let Some(free) = self.bitmap.first_free() { .. }  of
\* Pond::defrag on the loop state st: the pool p, the locals full, last_full
\* and remap, done once the loop has ended, ok |-> FALSE once it has panicked
pond_defrag_step(st) ==
  LET moved(free, full, mv) ==
        IF ~mv.ok THEN [st EXCEPT !.ok = FALSE, !.done = TRUE]
        ELSE [ok |-> TRUE, done |-> FALSE, p |-> mv.p, full |-> full, last_full |-> full,
              remap |-> MapInsert(st.remap, full, free)]
      scanned(free, full) ==
        IF full = st.last_full THEN [st EXCEPT !.done = TRUE]
        ELSE moved(free, full, pond_defrag_move(st.p, free, full))
      found(ff) ==
        IF ~ff.ok THEN [st EXCEPT !.ok = FALSE, !.done = TRUE]
        ELSE IF ~ff.ret.some THEN [st EXCEPT !.done = TRUE]
        ELSE scanned(ff.ret.v, pond_defrag_scan(st.p, ff.ret.v, st.last_full, st.full))
  IN IF st.done THEN st ELSE found(bm_first_free(st.p.bitmap))

\* n passes of the while loop of Pond::defrag, the first half and then the
\* second half
RECURSIVE pond_defrag_loop(_, _)
pond_defrag_loop(st, n) ==
  LET rest(mid) == IF mid.done THEN mid ELSE pond_defrag_loop(mid, n - n \div 2)
  IN IF n <= 0 THEN st
     ELSE IF n = 1 THEN pond_defrag_step(st)
     ELSE rest(pond_defrag_loop(st, n \div 2))

\* Pond::defrag.  Every pass that does not end the loop lowers last_full,
\* which starts at len(), so the loop ends within len() + 1 passes.
pond_defrag(p) ==
  LET result(st) == [ok |-> st.ok, p |-> st.p, remap |-> st.remap]
  IN IF pond_len(p) = 0 THEN [ok |-> TRUE, p |-> p, remap |-> EmptyMap]
     ELSE result(pond_defrag_loop([ok |-> TRUE, done |-> FALSE, p |-> p,
                                   full |-> pond_len(p), last_full |-> pond_len(p),
                                   remap |-> EmptyMap],
                                  pond_len(p) + 1))

\* the second statement of Pond::trim, on the result d of defrag:
\* if let Some(first_free) = self.bitmap.first_free() { self.resize(first_free) }
pond_trim_resize(d) ==
  LET resized(rz) == [d EXCEPT !.ok = rz.ok, !.p = rz.p]
      found(ff) == IF ~ff.ok THEN [d EXCEPT !.ok = FALSE]
                   ELSE IF ~ff.ret.some THEN d
                   ELSE resized(pond_resize(d.p, ff.ret.v))
  IN found(bm_first_free(d.p.bitmap))

\* Pond::trim
pond_trim(p) ==
  LET defragged(d) == IF ~d.ok THEN d ELSE pond_trim_resize(d)
  IN defragged(pond_defrag(p))

\* Discarding a Pond.  The struct has no Drop impl, so its drop glue drops the
\* two fields: Vec<MaybeUninit<T>> releases its buffer without running the
\* destructor of any cell, and the bitmap holds no T.  dropped is the set of
\* indices whose value has its destructor run.
pond_drop(p) == [ok |-> TRUE, p |-> p, dropped |-> {}]

\* the loop of Deserialize for Pond over the options data[a + 1 .. b] (Rust
\* indices a .. b - 1), in index order: a Some(v) at index k is write(k, v).
\* The range is split in two halves, first the lower then the upper, which is
\* the same sequence of writes.
RECURSIVE pond_deserialize_from(_, _, _, _)
pond_deserialize_from(p, data, a, b) ==
  LET rest(q) == IF pond_len(q) >= 0 THEN pond_deserialize_from(q, data, (a + b) \div 2, b)
                 ELSE q
  IN IF b <= a THEN p
     ELSE IF b = a + 1
          THEN IF data[b].some THEN pond_write(p, a, data[b].v).p ELSE p
     ELSE rest(pond_deserialize_from(p, data, a, (a + b) \div 2))

\* Deserialize for Pond: new, resize(len), write every Some in index order
pond_deserialize(data) ==
  pond_deserialize_from(pond_resize(pond_new, Len(data)).p, data, 0, Len(data))

(***************************************************************************)
(* NodeField: memory : Vec<MemorySlot<T>>, first_free : Index.             *)
(* A slot is Free(next) or Occupied(Steward {data, rc}).  Operators return *)
(* [ok, nf, ret, err]; ok |-> FALSE is a panic, err names the AccessError  *)
(* of an Err result ("" for Ok).                                           *)
(***************************************************************************)
\* MemorySlot::Free(next)
FreeSlot(next) == [occ |-> FALSE, next |-> next, data |-> 0, rc |-> 0]
\* MemorySlot::Occupied(Steward { data, rc })
OccSlot(data, rc) == [occ |-> TRUE, next |-> 0, data |-> data, rc |-> rc]
\* MemorySlot::steward: RefCount::new() is 1
steward(data) == OccSlot(data, 1)

\* usize::MAX, the largest reference count.  The integers of the model are
\* 32 bits wide and the largest of them stands for it; no operator adds to it.
USIZE_MAX == 2147483647

\* a NodeField whose only slot has been given usize::MAX references
nf_saturated(data) == [memory |-> <<OccSlot(data, USIZE_MAX)>>, first_free |-> 1]

\* slot i of f is inside memory and Occupied / Free
NfOccupied(f, i) == i < Len(f.memory) /\ At(f.memory, i).occ
NfFree(f, i) == i < Len(f.memory) /\ ~At(f.memory, i).occ

\* NodeField::new
nf_new == [memory |-> <<>>, first_free |-> 0]

\* NodeField::slot / NodeField::mut_slot.  last_index() computes
\* memory.len() - 1: on an empty memory that overflows (a panic in a debug
\* build) or wraps to usize::MAX, and then memory[index] is out of bounds (a
\* panic in a release build).
nf_slot(f, index) ==
  IF Len(f.memory) = 0 THEN [ok |-> FALSE, err |-> ""]
  ELSE IF index > Len(f.memory) - 1 THEN [ok |-> TRUE, err |-> "OutOfBoundsMemory"]
  ELSE IF ~At(f.memory, index).occ THEN [ok |-> TRUE, err |-> "FreeMemory"]
  ELSE [ok |-> TRUE, err |-> ""]

\* a free_index that links the freed slot to first_free even when the free
\* list is empty
nf_free_index_links_always(f, index) ==
  LET sl == nf_slot(f, index)
  IN IF ~sl.ok THEN [ok |-> FALSE, nf |-> f, ret |-> None]
     ELSE IF sl.err # "" THEN [ok |-> TRUE, nf |-> f, ret |-> None]
     ELSE [ok |-> TRUE,
           nf |-> [memory |-> Put(f.memory, index, FreeSlot(f.first_free)),
                   first_free |-> index],
           ret |-> Some(At(f.memory, index).data)]

\* NodeField::free_index
nf_free_index(f, index) ==
  LET sl == nf_slot(f, index)
      next_free == IF f.first_free = Len(f.memory) THEN index ELSE f.first_free
  IN IF ~sl.ok THEN [ok |-> FALSE, nf |-> f, ret |-> None]
     ELSE IF sl.err # "" THEN [ok |-> TRUE, nf |-> f, ret |-> None]
     ELSE [ok |-> TRUE,
           nf |-> [memory |-> Put(f.memory, index, FreeSlot(next_free)),
                   first_free |-> index],
           ret |-> Some(At(f.memory, index).data)]

\* a repair that leaves the free list as it finds it
nf_repair_keeps_order(f) == f

\* NodeField::repair_and_sort_allocator: the reverse pass over memory, at
\* Rust index i (i = -1 when done), next_free as carried by the loop
RECURSIVE nf_repair_from(_, _, _)
nf_repair_from(memory, i, next_free) ==
  IF i < 0
  THEN [memory |-> memory,
        first_free |-> IF next_free.some THEN next_free.v ELSE Len(memory)]
  ELSE IF ~At(memory, i).occ
       THEN nf_repair_from(
              Put(memory, i, FreeSlot(IF next_free.some THEN next_free.v ELSE i)),
              i - 1, Some(i))
       ELSE nf_repair_from(memory, i - 1, next_free)

nf_repair_and_sort_allocator(f) == nf_repair_from(f.memory, Len(f.memory) - 1, None)

\* NodeField::reserve_index
nf_reserve_index(f) ==
  LET first_free == f.first_free
      repaired == nf_repair_and_sort_allocator(f)
      is_free == ~At(f.memory, first_free).occ
      g == IF is_free THEN f ELSE repaired
      next_free == At(g.memory, first_free).next
  IN IF first_free = Len(f.memory)
     THEN [ok |-> TRUE, nf |-> [f EXCEPT !.first_free = Len(f.memory) + 1], ret |-> None]
     ELSE IF first_free > Len(f.memory) THEN [ok |-> FALSE, nf |-> f, ret |-> None]
     ELSE IF At(g.memory, first_free).occ
          THEN [ok |-> FALSE, nf |-> f, ret |-> None]
     ELSE [ok |-> TRUE,
           nf |-> [g EXCEPT !.first_free =
                     IF next_free = first_free
                     THEN (IF Len(g.memory) = 0 THEN 1 ELSE Len(g.memory))
                     ELSE next_free],
           ret |-> Some(first_free)]

\* a push that always appends, whatever the free list holds
nf_push_appends(f, data) ==
  [ok |-> TRUE,
   nf |-> [memory |-> Append(f.memory, steward(data)), first_free |-> f.first_free],
   ret |-> Some(Len(f.memory)), err |-> ""]

\* NodeField::push
nf_push(f, data) ==
  LET r == nf_reserve_index(f)
  IN IF ~r.ok THEN [ok |-> FALSE, nf |-> f, ret |-> None, err |-> ""]
     ELSE IF r.ret.some
          THEN [ok |-> TRUE,
                nf |-> [r.nf EXCEPT !.memory = Put(r.nf.memory, r.ret.v, steward(data))],
                ret |-> r.ret, err |-> ""]
          ELSE [ok |-> TRUE,
                nf |-> [r.nf EXCEPT !.memory = Append(r.nf.memory, steward(data))],
                ret |-> Some(Len(r.nf.memory)), err |-> ""]

\* the result of an operation that ends at the ? of slot(index)? / mut_slot(index)?
nf_bad_slot(f, sl) == [ok |-> sl.ok, nf |-> f, ret |-> None, err |-> sl.err]

\* NodeField::data
nf_data(f, index) ==
  LET sl == nf_slot(f, index)
  IN IF ~sl.ok \/ sl.err # "" THEN nf_bad_slot(f, sl)
     ELSE [ok |-> TRUE, nf |-> f, ret |-> Some(At(f.memory, index).data), err |-> ""]

\* NodeField::status
nf_status(f, index) ==
  LET sl == nf_slot(f, index)
  IN IF ~sl.ok \/ sl.err # "" THEN nf_bad_slot(f, sl)
     ELSE [ok |-> TRUE, nf |-> f, ret |-> Some(At(f.memory, index).rc), err |-> ""]

\* an add_ref whose count wraps around at usize::MAX and starts again at 1
nf_add_ref_wrapping(f, index) ==
  LET sl == nf_slot(f, index)
      s0 == At(f.memory, index)
  IN IF ~sl.ok \/ sl.err # "" THEN nf_bad_slot(f, sl)
     ELSE [ok |-> TRUE,
           nf |-> [f EXCEPT !.memory = Put(f.memory, index,
                     OccSlot(s0.data, IF s0.rc = USIZE_MAX THEN 1 ELSE s0.rc + 1))],
           ret |-> None, err |-> ""]

\* NodeField::add_ref with RefCount::modify_ref(1): checked_add fails at
\* usize::MAX, modify_ref returns OverUnder before the count is stored and
\* add_ref turns it into OperationFailed
nf_add_ref(f, index) ==
  LET sl == nf_slot(f, index)
      s0 == At(f.memory, index)
  IN IF ~sl.ok \/ sl.err # "" THEN nf_bad_slot(f, sl)
     ELSE IF s0.rc = USIZE_MAX
          THEN [ok |-> TRUE, nf |-> f, ret |-> None, err |-> "OperationFailed"]
     ELSE [ok |-> TRUE,
           nf |-> [f EXCEPT !.memory = Put(f.memory, index, OccSlot(s0.data, s0.rc + 1))],
           ret |-> None, err |-> ""]

\* a remove_ref that lowers the count without the Dangling test, so that the
\* last reference is never given back
nf_remove_ref_never_frees(f, index) ==
  LET sl == nf_slot(f, index)
      s0 == At(f.memory, index)
  IN IF ~sl.ok \/ sl.err # "" THEN nf_bad_slot(f, sl)
     ELSE [ok |-> TRUE,
           nf |-> [f EXCEPT !.memory = Put(f.memory, index,
                                           OccSlot(s0.data, IF s0.rc > 1 THEN s0.rc - 1 ELSE 1))],
           ret |-> None, err |-> ""]

\* NodeField::remove_ref with RefCount::modify_ref(-1): a count that would
\* reach 0 is Dangling, the count is left alone and the index is freed
nf_remove_ref(f, index) ==
  LET sl == nf_slot(f, index)
      s0 == At(f.memory, index)
      fr == nf_free_index(f, index)
  IN IF ~sl.ok \/ sl.err # "" THEN nf_bad_slot(f, sl)
     ELSE IF s0.rc - 1 = 0 THEN [ok |-> fr.ok, nf |-> fr.nf, ret |-> fr.ret, err |-> ""]
     ELSE [ok |-> TRUE,
           nf |-> [f EXCEPT !.memory = Put(f.memory, index, OccSlot(s0.data, s0.rc - 1))],
           ret |-> None, err |-> ""]

\* NodeField::replace
nf_replace(f, index, new_data) ==
  LET sl == nf_slot(f, index)
      s0 == At(f.memory, index)
  IN IF ~sl.ok \/ sl.err # "" THEN nf_bad_slot(f, sl)
     ELSE [ok |-> TRUE,
           nf |-> [f EXCEPT !.memory = Put(f.memory, index, OccSlot(new_data, s0.rc))],
           ret |-> Some(s0.data), err |-> ""]

\* the first inner loop of NodeField::defrag:
\*   while Occupied = memory[solid_until] { solid_until += 1; if == free_until break 'defrag }
\* st is "panic" (memory[solid_until] out of bounds), "break" or "go"
RECURSIVE nf_defrag_solid(_, _, _)
nf_defrag_solid(memory, solid_until, free_until) ==
  IF solid_until >= Len(memory) THEN [st |-> "panic", at |-> solid_until]
  ELSE IF ~At(memory, solid_until).occ THEN [st |-> "go", at |-> solid_until]
  ELSE IF solid_until + 1 = free_until THEN [st |-> "break", at |-> solid_until + 1]
  ELSE nf_defrag_solid(memory, solid_until + 1, free_until)

\* the second inner loop of NodeField::defrag:
\*   while Free = memory[free_until] { free_until -= 1; if == solid_until break 'defrag }
\* free_until -= 1 at 0 overflows (a panic in a debug build) or wraps to
\* usize::MAX, and then memory[free_until] is out of bounds (a panic in a
\* release build)
RECURSIVE nf_defrag_free(_, _, _)
nf_defrag_free(memory, solid_until, free_until) ==
  IF free_until >= Len(memory) THEN [st |-> "panic", at |-> free_until]
  ELSE IF At(memory, free_until).occ THEN [st |-> "go", at |-> free_until]
  ELSE IF free_until = 0 THEN [st |-> "panic", at |-> free_until]
  ELSE IF free_until - 1 = solid_until THEN [st |-> "break", at |-> free_until - 1]
  ELSE nf_defrag_free(memory, solid_until, free_until - 1)

\* the 'defrag loop of NodeField::defrag
RECURSIVE nf_defrag_loop(_, _, _, _)
nf_defrag_loop(memory, solid_until, free_until, remapped) ==
  LET a == nf_defrag_solid(memory, solid_until, free_until)
      b == nf_defrag_free(memory, a.at, free_until)
  IN IF a.st = "panic" THEN [ok |-> FALSE, memory |-> memory, remap |-> remapped]
     ELSE IF a.st = "break" THEN [ok |-> TRUE, memory |-> memory, remap |-> remapped]
     ELSE IF b.st = "panic" THEN [ok |-> FALSE, memory |-> memory, remap |-> remapped]
     ELSE IF b.st = "break" THEN [ok |-> TRUE, memory |-> memory, remap |-> remapped]
     ELSE nf_defrag_loop(VecSwap(memory, b.at, a.at), a.at, b.at,
                         MapInsert(remapped, b.at, a.at))

\* a defrag that moves the slots and reports no move
nf_defrag_silent(f) ==
  IF 0 = Len(f.memory) THEN [ok |-> TRUE, nf |-> f, remap |-> EmptyMap]
  ELSE LET r == nf_defrag_loop(f.memory, 0, Len(f.memory) - 1, EmptyMap)
       IN IF ~r.ok THEN [ok |-> FALSE, nf |-> f, remap |-> EmptyMap]
          ELSE [ok |-> TRUE,
                nf |-> nf_repair_and_sort_allocator([f EXCEPT !.memory = r.memory]),
                remap |-> EmptyMap]

\* NodeField::defrag
nf_defrag(f) ==
  IF 0 = Len(f.memory) THEN [ok |-> TRUE, nf |-> f, remap |-> EmptyMap]
  ELSE LET r == nf_defrag_loop(f.memory, 0, Len(f.memory) - 1, EmptyMap)
       IN IF ~r.ok THEN [ok |-> FALSE, nf |-> f, remap |-> EmptyMap]
          ELSE [ok |-> TRUE,
                nf |-> nf_repair_and_sort_allocator([f EXCEPT !.memory = r.memory]),
                remap |-> r.remap]

\* NodeField::trim: memory.truncate(first_free)
nf_trim(f) ==
  LET d == nf_defrag(f)
  IN IF ~d.ok THEN d
     ELSE [d EXCEPT !.nf.memory =
             IF d.nf.first_free < Len(d.nf.memory)
             THEN SubSeq(d.nf.memory, 1, d.nf.first_free) ELSE d.nf.memory]

(***************************************************************************)
(* FullFlatBinaryTree (src/src/binary_tree.rs): tree : Vec<Node> laid out  *)
(* in order, with height, size and capacity.  Node 2k holds the leaves 2k  *)
(* (left) and 2k + 1 (right); an odd node holds whether its left and right *)
(* subtrees are full.  The root is node 2^height - 1.                      *)
(***************************************************************************)
\* Option<bool>
NoneB == [some |-> FALSE, v |-> FALSE]
SomeB(b) == [some |-> TRUE, v |-> b]
\* Some(()) of Option<()>: the unit value is written 0
SomeUnit == Some(0)

\* Node::new
node_new == [left |-> FALSE, right |-> FALSE]

\* usize::next_power_of_two: the smallest power of two p, 2p, 4p, .. >= n
RECURSIVE pow2_from(_, _)
pow2_from(n, p) == IF p >= n THEN p ELSE pow2_from(n, 2 * p)
next_power_of_two(n) == pow2_from(n, 1)

\* usize::ilog2 (n >= 1)
RECURSIVE ilog2(_)
ilog2(n) == IF n <= 1 THEN 0 ELSE 1 + ilog2(n \div 2)

\* Vec::truncate(n)
VecTruncate(v, n) == IF Len(v) > n THEN SubSeq(v, 1, n) ELSE v

\* FullFlatBinaryTree::new
ft_new == [tree |-> <<node_new>>, height |-> 0, size |-> 0, capacity |-> 2]

\* (path & (!0 << 1)) << steps_from_leaf
ft_cur_idx(path, steps_from_leaf) == Shl(path - (path % 2), steps_from_leaf)

\* FullFlatBinaryTree::get: ok |-> FALSE is an index-out-of-bounds panic
ft_get(t, path, steps_from_leaf) ==
  LET at(cur_idx) ==
        IF cur_idx > t.capacity THEN [ok |-> TRUE, ret |-> NoneB]
        ELSE IF cur_idx >= Len(t.tree) THEN [ok |-> FALSE, ret |-> NoneB]
        ELSE [ok |-> TRUE,
              ret |-> SomeB(IF path % 2 = 0 THEN At(t.tree, cur_idx).left
                                            ELSE At(t.tree, cur_idx).right)]
  IN at(ft_cur_idx(path, steps_from_leaf))

\* the loop of FullFlatBinaryTree::set from step i on: cur_idx moves to the
\* parent, which takes combined on the side it was reached from
RECURSIVE ft_set_up(_, _, _, _, _)
ft_set_up(tree, cur_idx, combined, i, height) ==
  LET up == (cur_idx \div Pow2(i + 1)) % 2 = 0
      stored(parent, node) ==
        ft_set_up(Put(tree, parent, node), parent, node.left /\ node.right, i + 1, height)
      moved(parent) ==
        IF parent < 0 \/ parent >= Len(tree) THEN [ok |-> FALSE, tree |-> tree]
        ELSE stored(parent, IF up THEN [At(tree, parent) EXCEPT !.left = combined]
                                  ELSE [At(tree, parent) EXCEPT !.right = combined])
  IN IF i >= height THEN [ok |-> TRUE, tree |-> tree]
     ELSE moved(IF up THEN cur_idx + Pow2(i) ELSE cur_idx - Pow2(i))

\* FullFlatBinaryTree::set
ft_set(t, path, full, steps_from_leaf) ==
  LET climbed(r) == [ok |-> r.ok, t |-> [t EXCEPT !.tree = r.tree], ret |-> SomeUnit]
      stored(cur_idx, node) ==
        climbed(ft_set_up(Put(t.tree, cur_idx, node), cur_idx, node.left /\ node.right,
                          steps_from_leaf, t.height))
      at(cur_idx) ==
        IF cur_idx > t.capacity THEN [ok |-> TRUE, t |-> t, ret |-> None]
        ELSE IF cur_idx >= Len(t.tree) THEN [ok |-> FALSE, t |-> t, ret |-> None]
        ELSE stored(cur_idx, IF path % 2 = 0 THEN [At(t.tree, cur_idx) EXCEPT !.left = full]
                                             ELSE [At(t.tree, cur_idx) EXCEPT !.right = full])
  IN at(ft_cur_idx(path, steps_from_leaf))

\* a set_leaf without the  if idx >= self.size { return None }
ft_set_leaf_unchecked(t, idx, full) == ft_set(t, idx, full, 0)

\* FullFlatBinaryTree::set_leaf
ft_set_leaf(t, idx, full) ==
  IF idx >= t.size THEN [ok |-> TRUE, t |-> t, ret |-> None]
  ELSE ft_set(t, idx, full, 0)

\* FullFlatBinaryTree::get_leaf
ft_get_leaf(t, idx) ==
  IF idx >= t.size THEN [ok |-> TRUE, ret |-> NoneB]
  ELSE ft_get(t, idx, 0)

\* the loop of FullFlatBinaryTree::get_first_empty_leaf from step i down to
\* 0; none is the  return None  of a node with both sides full
RECURSIVE ft_descend(_, _, _)
ft_descend(t, cur_idx, i) ==
  IF i < 0 THEN [ok |-> TRUE, none |-> FALSE, idx |-> cur_idx]
  ELSE IF cur_idx < 0 \/ cur_idx >= Len(t.tree) THEN [ok |-> FALSE, none |-> FALSE, idx |-> 0]
  ELSE IF ~At(t.tree, cur_idx).left THEN ft_descend(t, cur_idx - Pow2(i), i - 1)
  ELSE IF ~At(t.tree, cur_idx).right THEN ft_descend(t, cur_idx + Pow2(i), i - 1)
  ELSE [ok |-> TRUE, none |-> TRUE, idx |-> cur_idx]

\* a get_first_empty_leaf without the  (result < self.size).then_some(result)
ft_get_first_empty_leaf_no_bound(t) ==
  LET landed(d) ==
        IF ~d.ok THEN [ok |-> FALSE, ret |-> None]
        ELSE IF d.none THEN [ok |-> TRUE, ret |-> None]
        ELSE IF d.idx >= Len(t.tree) THEN [ok |-> FALSE, ret |-> None]
        ELSE IF ~At(t.tree, d.idx).left THEN [ok |-> TRUE, ret |-> Some(d.idx)]
        ELSE IF ~At(t.tree, d.idx).right THEN [ok |-> TRUE, ret |-> Some(d.idx + 1)]
        ELSE [ok |-> TRUE, ret |-> None]
  IN landed(ft_descend(t, Pow2(t.height) - 1, t.height - 1))

\* FullFlatBinaryTree::get_first_empty_leaf
ft_get_first_empty_leaf(t) ==
  LET below(result) == [ok |-> TRUE, ret |-> IF result < t.size THEN Some(result) ELSE None]
      landed(d) ==
        IF ~d.ok THEN [ok |-> FALSE, ret |-> None]
        ELSE IF d.none THEN [ok |-> TRUE, ret |-> None]
        ELSE IF d.idx >= Len(t.tree) THEN [ok |-> FALSE, ret |-> None]
        ELSE IF ~At(t.tree, d.idx).left THEN below(d.idx)
        ELSE IF ~At(t.tree, d.idx).right THEN below(d.idx + 1)
        ELSE [ok |-> TRUE, ret |-> None]
  IN landed(ft_descend(t, Pow2(t.height) - 1, t.height - 1))

\* a refit that forgets the truncate
ft_refit_keep_all(s, keep) ==
  [s EXCEPT !.tree = VecResize(s.tree, s.capacity - 1, node_new)]

\* self.tree.truncate(keep); self.tree.resize(self.capacity - 1, Node::new())
ft_refit(s, keep) ==
  [s EXCEPT !.tree = VecResize(VecTruncate(s.tree, keep), s.capacity - 1, node_new)]

\* FullFlatBinaryTree::resize.  sized is self after size, capacity and height
\* are assigned; the four branches follow.  ok |-> FALSE is a panic (unwrap
\* of None, index out of bounds).
ft_resize(t, size) ==
  LET capacity(npot) == IF npot > 2 THEN npot ELSE 2
      sized(cap) == [t EXCEPT !.size = size, !.capacity = cap, !.height = ilog2(cap \div 2)]
      restored(r) == [ok |-> r.ok, t |-> r.t]
      shrunk(s, last_val) ==
        IF ~last_val.ok \/ ~last_val.ret.some THEN [ok |-> FALSE, t |-> t]
        ELSE restored(ft_set_leaf(ft_refit(s, size - 1), size - 1, last_val.ret.v))
      grown(s, last_val) ==
        IF ~last_val.ok \/ ~last_val.ret.some THEN [ok |-> FALSE, t |-> t]
        ELSE restored(ft_set_leaf([s EXCEPT !.tree = VecResize(s.tree, s.capacity - 1, node_new)],
                                  t.size - 1, last_val.ret.v))
      resized(s) ==
        IF t.size > size /\ size # 0 THEN shrunk(s, ft_get_leaf(s, size - 1))
        ELSE IF t.size > size THEN [ok |-> TRUE, t |-> ft_refit(s, 0)]
        ELSE IF t.size = 0
        THEN [ok |-> TRUE, t |-> [s EXCEPT !.tree = VecResize(s.tree, s.capacity - 1, node_new)]]
        ELSE grown(s, ft_get_leaf(s, t.size - 1))
  IN IF t.size = size THEN [ok |-> TRUE, t |-> t]
     ELSE resized(sized(capacity(next_power_of_two(size))))

\* set_leaf(i, true) for every i in a .. n - 1, as in test_tree
RECURSIVE ft_fill(_, _, _)
ft_fill(t, a, n) == IF a >= n THEN t ELSE ft_fill(ft_set_leaf(t, a, TRUE).t, a + 1, n)

\* a tree resized to n leaves and then filled
ft_full(n) == ft_fill(ft_resize(ft_new, n).t, 0, n)

(***************************************************************************)
(* The Pond machine.  A pool is built by Pond::new or by Deserialize, and  *)
(* then driven by insert, write, free, resize, defrag and trim.  last      *)
(* records the operation that led to the current state and what it          *)
(* returned; ops counts the operations applied.                            *)
(***************************************************************************)
\* a fully occupied sequence of n cells, as handed to Deserialize
FullData(n) == [i \in 1 .. n |-> Some(((i - 1) % 2) + 1)]

NoOp == [op |-> "new", idx |-> 0, val |-> 0, ret |-> None, remap |-> EmptyMap]
NfNoOp == [op |-> "new", idx |-> 0, val |-> 0, ret |-> None, err |-> "", remap |-> EmptyMap]

PondInit ==
  /\ pond \in {pond_new} \cup {pond_deserialize(FullData(n)) : n \in InitLens}
  /\ pond_panicked = FALSE
  /\ last = NoOp
  /\ ops = 0

NfIdle ==
  /\ nf = nf_new
  /\ nf_panicked = FALSE
  /\ nf_last = NfNoOp

\* a bitmap built by AcceleratedBitmap::new and left alone
BmNoOp == [op |-> "new", idx |-> 0, val |-> FALSE]

BmIdle ==
  /\ bmap = bm_new(3)
  /\ bm_size = 0
  /\ bm_panicked = FALSE
  /\ bm_last = BmNoOp
  /\ bm_ops = 0

\* a tree built by FullFlatBinaryTree::new and left alone
FtNoOp == [op |-> "new", idx |-> 0, val |-> FALSE, ret |-> None]

FtIdle ==
  /\ ft = ft_new
  /\ ft_panicked = FALSE
  /\ ft_last = FtNoOp
  /\ ft_ops = 0

Init == PondInit /\ NfIdle /\ BmIdle /\ FtIdle

\* the state after an operation that returned r, or that panicked
PondStep(r, op, idx, val, ret, remap) ==
  /\ pond' = IF r.ok THEN r.p ELSE pond
  /\ pond_panicked' = ~r.ok
  /\ last' = [op |-> op, idx |-> idx, val |-> val,
              ret |-> IF r.ok THEN ret ELSE None,
              remap |-> IF r.ok THEN remap ELSE EmptyMap]
  /\ ops' = ops + 1
  /\ UNCHANGED <<nf_vars, bm_vars, ft_vars>>

\* the pool is alive: it has not panicked and has not been discarded
PondReady == ~pond_panicked /\ ops < MaxOps /\ last.op # "drop"

Insert(v) ==
  /\ PondReady
  /\ \E r \in {pond_insert(pond, v)} :
       PondStep(r, "insert", IF r.ok THEN r.ret.v ELSE 0, v, r.ret, EmptyMap)

Write(i, v) ==
  /\ PondReady
  /\ \E r \in {pond_write(pond, i, v)} : PondStep(r, "write", i, v, r.ret, EmptyMap)

Free(i) ==
  /\ PondReady
  /\ \E r \in {pond_free(pond, i)} : PondStep(r, "free", i, 0, r.ret, EmptyMap)

Resize(n) ==
  /\ PondReady
  /\ PondStep(pond_resize(pond, n), "resize", n, 0, None, EmptyMap)

Defrag ==
  /\ PondReady
  /\ \E r \in {pond_defrag(pond)} : PondStep(r, "defrag", 0, 0, None, r.remap)

Trim ==
  /\ PondReady
  /\ \E r \in {pond_trim(pond)} : PondStep(r, "trim", 0, 0, None, r.remap)

\* a caller's  let i = pond.insert(v); pond.free(i)
pond_insert_free(p, v) ==
  LET freed(i, b) == [ok |-> b.ok, p |-> b.p, ret |-> b.ret, idx |-> i]
      inserted(a) == IF ~a.ok THEN [ok |-> FALSE, p |-> p, ret |-> None, idx |-> 0]
                     ELSE freed(a.ret.v, pond_free(a.p, a.ret.v))
  IN inserted(pond_insert(p, v))

InsertFree(v) ==
  /\ PondReady
  /\ \E r \in {pond_insert_free(pond, v)} :
       PondStep(r, "insert_free", r.idx, v, r.ret, EmptyMap)

\* the pool goes out of scope; nothing can be done with it afterwards
Discard ==
  /\ PondReady
  /\ PondStep(pond_drop(pond), "drop", 0, 0, None, EmptyMap)

Next ==
  \/ \E v \in Values : Insert(v)
  \/ \E i \in Idx, v \in Values : Write(i, v)
  \/ \E i \in Idx : Free(i)
  \/ \E n \in Sizes : Resize(n)
  \/ Defrag
  \/ Trim
  \/ \E v \in Values : InsertFree(v)
  \/ Discard

Spec == Init /\ [][Next]_vars

(***************************************************************************)
(* The NodeField machine: a NodeField built by NodeField::new and driven   *)
(* by push, add_ref, remove_ref, replace, data, status,                    *)
(* repair_and_sort_allocator, defrag and trim.                             *)
(***************************************************************************)
PondIdle ==
  /\ pond = pond_new
  /\ pond_panicked = FALSE
  /\ last = NoOp
  /\ ops = 0

NfInit ==
  /\ nf \in {nf_new, nf_saturated(1)}
  /\ nf_panicked = FALSE
  /\ nf_last = NfNoOp
  /\ PondIdle /\ BmIdle /\ FtIdle

\* the indices handed to the NodeField operations: every slot, and one past
NfIdx == 0 .. MaxMem

NfStep(r, op, idx, val, ret, err, remap) ==
  /\ nf' = IF r.ok THEN r.nf ELSE nf
  /\ nf_panicked' = ~r.ok
  /\ nf_last' = [op |-> op, idx |-> idx, val |-> val,
                 ret |-> IF r.ok THEN ret ELSE None,
                 err |-> IF r.ok THEN err ELSE "",
                 remap |-> IF r.ok THEN remap ELSE EmptyMap]
  /\ UNCHANGED <<pond_vars, bm_vars, ft_vars>>

NfPush(v) ==
  /\ ~nf_panicked
  /\ Len(nf.memory) < MaxMem \/ nf.first_free < Len(nf.memory)
  /\ LET r == nf_push(nf, v)
     IN NfStep(r, "push", IF r.ok THEN r.ret.v ELSE 0, v, r.ret, "", EmptyMap)

NfAddRef(i) ==
  /\ ~nf_panicked
  /\ NfOccupied(nf, i) =>
       At(nf.memory, i).rc < MaxRc \/ At(nf.memory, i).rc >= USIZE_MAX - 1
  /\ LET r == nf_add_ref(nf, i)
     IN NfStep(r, "add_ref", i, 0, r.ret, r.err, EmptyMap)

NfRemoveRef(i) ==
  /\ ~nf_panicked
  /\ NfOccupied(nf, i) =>
       At(nf.memory, i).rc <= MaxRc \/ At(nf.memory, i).rc = USIZE_MAX
  /\ LET r == nf_remove_ref(nf, i)
     IN NfStep(r, "remove_ref", i, 0, r.ret, r.err, EmptyMap)

NfReplace(i, v) ==
  /\ ~nf_panicked
  /\ LET r == nf_replace(nf, i, v)
     IN NfStep(r, "replace", i, v, r.ret, r.err, EmptyMap)

NfData(i) ==
  /\ ~nf_panicked
  /\ LET r == nf_data(nf, i)
     IN NfStep(r, "data", i, 0, r.ret, r.err, EmptyMap)

NfStatus(i) ==
  /\ ~nf_panicked
  /\ LET r == nf_status(nf, i)
     IN NfStep(r, "status", i, 0, r.ret, r.err, EmptyMap)

NfRepair ==
  /\ ~nf_panicked
  /\ NfStep([ok |-> TRUE, nf |-> nf_repair_and_sort_allocator(nf)],
            "repair", 0, 0, None, "", EmptyMap)

NfDefrag ==
  /\ ~nf_panicked
  /\ LET r == nf_defrag(nf)
     IN NfStep(r, "defrag", 0, 0, None, "", r.remap)

NfTrim ==
  /\ ~nf_panicked
  /\ LET r == nf_trim(nf)
     IN NfStep(r, "trim", 0, 0, None, "", r.remap)

NfNext ==
  \/ \E v \in Values : NfPush(v)
  \/ \E i \in NfIdx : NfAddRef(i)
  \/ \E i \in NfIdx : NfRemoveRef(i)
  \/ \E i \in NfIdx, v \in Values : NfReplace(i, v)
  \/ \E i \in NfIdx : NfData(i)
  \/ \E i \in NfIdx : NfStatus(i)
  \/ NfRepair
  \/ NfDefrag
  \/ NfTrim

NfSpec == NfInit /\ [][NfNext]_vars

(***************************************************************************)
(* The AcceleratedBitmap machine: a bitmap built by AcceleratedBitmap::new *)
(* and driven by resize and set.  The bitmap keeps no size; bm_size is the *)
(* size handed to the most recent resize, as its caller knows it, and set  *)
(* is called with indices below it.                                        *)
(***************************************************************************)
BmInit == BmIdle /\ PondIdle /\ NfIdle /\ FtIdle

BmStep(r, op, idx, val, size) ==
  /\ bmap' = IF r.ok THEN r.bm ELSE bmap
  /\ bm_size' = size
  /\ bm_panicked' = ~r.ok
  /\ bm_last' = [op |-> op, idx |-> idx, val |-> val]
  /\ bm_ops' = bm_ops + 1
  /\ UNCHANGED <<pond_vars, nf_vars, ft_vars>>

BmReady == ~bm_panicked /\ bm_ops < MaxBmOps

BmResize(n) ==
  /\ BmReady
  /\ BmStep([ok |-> TRUE, bm |-> bm_resize(bmap, n)], "resize", n, FALSE, n)

BmSet(i, b) ==
  /\ BmReady
  /\ i < bm_size
  /\ \E r \in {bm_set(bmap, i, b)} : BmStep(r, "set", i, b, bm_size)

BmNext ==
  \/ \E n \in BmSizes : BmResize(n)
  \/ \E i \in BmIdx, b \in BOOLEAN : BmSet(i, b)

BmSpec == BmInit /\ [][BmNext]_vars

(***************************************************************************)
(* The FullFlatBinaryTree machine: a tree built by new, or resized and     *)
(* filled as test_tree does, and then driven by resize and set_leaf.       *)
(***************************************************************************)
FtInit ==
  /\ ft \in {ft_new} \cup {ft_full(n) : n \in FtInitSizes}
  /\ ft_panicked = FALSE
  /\ ft_last = FtNoOp
  /\ ft_ops = 0
  /\ PondIdle /\ NfIdle /\ BmIdle

FtStep(r, op, idx, val, ret) ==
  /\ ft' = IF r.ok THEN r.t ELSE ft
  /\ ft_panicked' = ~r.ok
  /\ ft_last' = [op |-> op, idx |-> idx, val |-> val, ret |-> IF r.ok THEN ret ELSE None]
  /\ ft_ops' = ft_ops + 1
  /\ UNCHANGED <<pond_vars, nf_vars, bm_vars>>

FtReady == ~ft_panicked /\ ft_ops < MaxFtOps

FtResize(n) ==
  /\ FtReady
  /\ \E r \in {ft_resize(ft, n)} : FtStep(r, "resize", n, FALSE, None)

FtSetLeaf(i, b) ==
  /\ FtReady
  /\ \E r \in {ft_set_leaf(ft, i, b)} : FtStep(r, "set_leaf", i, b, r.ret)

FtNext ==
  \/ \E n \in FtSizes : FtResize(n)
  \/ \E i \in FtIdx, b \in BOOLEAN : FtSetLeaf(i, b)

FtSpec == FtInit /\ [][FtNext]_vars

\* the leaves below size that read full
FtFullLeaves(t) == {i \in 0 .. t.size - 1 : ft_get_leaf(t, i).ret = SomeB(TRUE)}

\* the level of node j: 0 for the even nodes that hold leaves, k for a
\* node whose subtrees hold 2^k leaves each
RECURSIVE ft_level(_)
ft_level(j) == IF j % 2 = 0 THEN 0 ELSE 1 + ft_level(j \div 2)

\* an internal node equals the AND of the leaves beneath it, leaves at or
\* above size counting as empty
FtNodeExact(t, j) ==
  LET k == ft_level(j)
  IN /\ At(t.tree, j).left = (\A i \in j - Pow2(k) + 1 .. j : i \in FtFullLeaves(t))
     /\ At(t.tree, j).right = (\A i \in j + 1 .. j + Pow2(k) : i \in FtFullLeaves(t))

(***************************************************************************)
(* What a caller observes of a Pond.                                       *)
(***************************************************************************)
\* the indices below len() that are occupied
Occupied(p) == {i \in 0 .. pond_len(p) - 1 : pond_is_occupied(p, i)}

\* the smallest free index below len(), or len()
LowestFree(p) ==
  LET free == (0 .. pond_len(p) - 1) \ Occupied(p)
  IN IF free = {} THEN pond_len(p) ELSE SetMin(free)

\* a cell holding a live value
Live(p, i) == At(p.data, i) # Uninit

\* how many occupied cells hold v
CountOf(p, v) == Cardinality({i \in Occupied(p) : At(p.data, i) = v})

\* remap.get(h).unwrap_or(h)
Remapped(remap, h) == IF h \in DOMAIN remap THEN remap[h] ELSE h

(***************************************************************************)
(* Claims about Pond and AcceleratedBitmap.  The operation named by last'  *)
(* is the one that leads from the unprimed to the primed state.            *)
(***************************************************************************)

\* C1: Pond::insert(v) returns an index i that was not occupied before the
\* call and is occupied after it, get(i) then yields v, and every value
\* stored before the call is still stored at its index.
C1_InsertTakesFreeSlot ==
  [][(last'.op = "insert" /\ ~pond_panicked') =>
       /\ ~pond_is_occupied(pond, last'.idx)
       /\ pond_is_occupied(pond', last'.idx)
       /\ pond_get(pond', last'.idx) = Some(last'.val)
       /\ \A j \in Occupied(pond) : pond_get(pond', j) = pond_get(pond, j)]_vars

\* C2: in every state Pond::next_index() is the smallest free index below
\* len(), or len() when there is none, and the next insert returns exactly
\* that index.
C2_LowestIndexFirst ==
  /\ [](~pond_panicked =>
          /\ pond_next_index(pond).ok
          /\ pond_next_index(pond).ret = LowestFree(pond))
  /\ [][(last'.op = "insert" /\ ~pond_panicked') => last'.idx = LowestFree(pond)]_vars

\* C3: for every index below len(), the cell holds a live value if and only
\* if its occupancy bit is set.
C3_CellLiveIffBitSet ==
  ~pond_panicked =>
    \A i \in 0 .. pond_len(pond) - 1 : Live(pond, i) <=> bm_is_set(pond.bitmap, i)

\* word k of the level below layer l (the base for l = 1) exists and has
\* all its tracked bits set
ChildFull(bm, l, k) ==
  IF l = 1 THEN k < Len(bm.base) /\ At(bm.base, k) = AllOnes
  ELSE k < Len(bm.accel_layers[l - 1])
       /\ WAnd(At(bm.accel_layers[l - 1], k), SET_FULL) = SET_FULL

\* C4: every full-tracking summary bit is exact: bit k of the low halves of a
\* layer is 1 iff word k of the level below is all ones.
C4_FullBitsExact ==
  ~pond_panicked =>
    \A l \in 1 .. Len(pond.bitmap.accel_layers) :
      \A j \in 0 .. Len(pond.bitmap.accel_layers[l]) - 1 :
        \A b \in 0 .. 31 :
          (b \in At(pond.bitmap.accel_layers[l], j))
            <=> ChildFull(pond.bitmap, l, Shl(j, ACCEL_SHIFT) + b)

\* C5: after Pond::defrag the occupied indices form a prefix of the pool: no
\* free index is below an occupied one.
C5_DefragDense ==
  (last.op = "defrag" /\ ~pond_panicked) =>
    \A i, j \in 0 .. pond_len(pond) - 1 :
      (~pond_is_occupied(pond, i) /\ pond_is_occupied(pond, j)) => j < i

\* C6: Pond::defrag keeps the multiset of stored values, and every index h
\* occupied before the call is found, with its value, at
\* remap.get(h).unwrap_or(h).
C6_DefragKeepsValues ==
  [][(last'.op = "defrag" /\ ~pond_panicked') =>
       /\ \A v \in Values : CountOf(pond', v) = CountOf(pond, v)
       /\ \A h \in Occupied(pond) :
            pond_get(pond', Remapped(last'.remap, h)) = pond_get(pond, h)]_vars

\* C7: after Pond::trim, len() is the number of indices occupied before the
\* call and every index below len() is occupied.
C7_TrimToOccupiedCount ==
  [][(last'.op = "trim" /\ ~pond_panicked') =>
       /\ pond_len(pond') = Cardinality(Occupied(pond))
       /\ Occupied(pond') = 0 .. pond_len(pond') - 1]_vars

C10_FreeContract ==
  [][last'.op = "free" =>
       /\ ~pond_panicked'
       /\ IF last'.idx < pond_len(pond) /\ bm_is_set(pond.bitmap, last'.idx)
          THEN /\ last'.ret = Some(At(pond.data, last'.idx))
               /\ pond_len(pond') = pond_len(pond)
               /\ ~pond_is_occupied(pond', last'.idx)
               /\ \A j \in (0 .. pond_len(pond) - 1) \ {last'.idx} :
                    pond_get(pond', j) = pond_get(pond, j)
          ELSE /\ last'.ret = None
               /\ pond' = pond]_vars

\* a free that returned a value from a pool longer than one base word, and
\* left other occupied indices behind
C10_Witness ==
  /\ last.op = "free"
  /\ ~pond_panicked
  /\ last.ret.some
  /\ pond_len(pond) > 64
  /\ Occupied(pond) # {}

\* C11: Pond::write(i, w) returns Some(v) if index i was occupied holding v
\* and None if i was free or at or after len(); afterwards index i is
\* occupied and get(i) yields w.  (A write(i, v) followed by write(i, w) is
\* the case of an occupied index holding v.)
C11_WriteContract ==
  [][last'.op = "write" =>
       /\ ~pond_panicked'
       /\ last'.ret = IF last'.idx < pond_len(pond) /\ bm_is_set(pond.bitmap, last'.idx)
                      THEN Some(At(pond.data, last'.idx))
                      ELSE None
       /\ pond_is_occupied(pond', last'.idx)
       /\ pond_get(pond', last'.idx) = Some(last'.val)]_vars

\* a write over an occupied slot of the second base word returned the other
\* value that the slot held
C11_Witness ==
  /\ last.op = "write"
  /\ ~pond_panicked
  /\ last.idx = 40
  /\ last.ret.some
  /\ last.ret.v # last.val
  /\ pond_get(pond, 40) = Some(last.val)

\* C12: Pond::write(i, v) with i >= len() grows the pool to len() = i + 1,
\* leaves every index in [old len, i) free and leaves the occupancy and value
\* of every index below the old len unchanged; with i < len() it changes
\* neither len() nor the occupancy or value of any index other than i.
C12_WriteFrame ==
  [][last'.op = "write" =>
       /\ ~pond_panicked'
       /\ pond_len(pond') = IF last'.idx >= pond_len(pond) THEN last'.idx + 1
                            ELSE pond_len(pond)
       /\ \A j \in pond_len(pond) .. last'.idx - 1 : ~pond_is_occupied(pond', j)
       /\ \A j \in (0 .. pond_len(pond) - 1) \ {last'.idx} :
            /\ pond_is_occupied(pond', j) = pond_is_occupied(pond, j)
            /\ pond_get(pond', j) = pond_get(pond, j)]_vars

\* a write at index 70 grew a pool that ended inside the first base word, and
\* the slots it had are still occupied
C12_Witness ==
  /\ last.op = "write"
  /\ ~pond_panicked
  /\ last.idx = 70
  /\ pond_len(pond) = 71
  /\ Occupied(pond) = {0, 1, 2, 70}

\* C13: Pond::resize(n) preserves everything below the new bound: for every
\* index i < min(n, old len), is_occupied(i) and get(i) return the same after
\* the call as before, whether the pool shrinks or grows, and after a grow
\* every index in [old len, n) is free.
C13_ResizeFrame ==
  [][last'.op = "resize" =>
       /\ ~pond_panicked'
       /\ pond_len(pond') = last'.idx
       /\ \A i \in 0 .. pond_len(pond) - 1 :
            i < last'.idx =>
              /\ pond_is_occupied(pond', i) = pond_is_occupied(pond, i)
              /\ pond_get(pond', i) = pond_get(pond, i)
       /\ \A j \in pond_len(pond) .. last'.idx - 1 :
            /\ ~pond_is_occupied(pond', j)
            /\ pond_get(pond', j) = None]_vars

\* a resize to 66 cells of a pool whose indices 0..32 are occupied: the
\* occupied indices end inside a base word and the new ones go past it
C13_Witness ==
  /\ last.op = "resize"
  /\ ~pond_panicked
  /\ last.idx = 66
  /\ pond_len(pond) = 66
  /\ Occupied(pond) = 0 .. 32

\* C14: when Pond::resize(n) shrinks the pool, each value at an occupied
\* index in [n, old len) is dropped exactly once and no value below n is
\* dropped; when the pool is later resized back above such an index, the
\* index is free (is_occupied false, get None) and next_index and insert
\* treat it as free: next_index returns the lowest free index, without a
\* panic.  The regrow is checked on pools with fewer than 32 occupied
\* indices, where no base word has its low 32 bits set.
C14_ShrinkDropsRegrowFree ==
  [][last'.op = "resize" =>
       /\ ~pond_panicked'
       /\ pond_resize(pond, last'.idx).dropped = {i \in Occupied(pond) : i >= last'.idx}
       /\ (last'.idx > pond_len(pond) /\ Cardinality(Occupied(pond)) < 32) =>
            /\ \A j \in pond_len(pond) .. last'.idx - 1 :
                 ~pond_is_occupied(pond', j) /\ pond_get(pond', j) = None
            /\ pond_next_index(pond').ok
            /\ pond_next_index(pond').ret = LowestFree(pond')]_vars

\* C15: when a Pond is discarded, every value in a cell that is occupied at
\* that moment is dropped exactly once and no free cell is dropped, so that
\* no value handed to insert or write is leaked.
C15_DiscardDropsOccupied ==
  [][last'.op = "drop" =>
       /\ ~pond_panicked'
       /\ pond_drop(pond).dropped = Occupied(pond)]_vars

\* C16: AcceleratedBitmap::first_free never returns an index greater than or
\* equal to the size given to the most recent resize: when every bit below
\* that size is set (size 0 included) it returns None, otherwise Some(i)
\* with i < size.
C16_FirstFreeBelowSize ==
  ~bm_panicked =>
    /\ bm_first_free(bmap).ok
    /\ IF \A i \in 0 .. bm_size - 1 : bm_is_set(bmap, i)
       THEN bm_first_free(bmap).ret = None
       ELSE bm_first_free(bmap).ret.some /\ bm_first_free(bmap).ret.v < bm_size

\* C17: AcceleratedBitmap::resize(n) leaves is_set(i) unchanged for every
\* i < min(old size, n), and after a grow every index in [old size, n) reads
\* as not set, also when it had been set before an earlier shrink.
C17_BitmapResizeFrame ==
  [][bm_last'.op = "resize" =>
       /\ ~bm_panicked'
       /\ \A i \in 0 .. bm_size - 1 :
            i < bm_size' => /\ bm_is_set_ok(bmap', i)
                            /\ bm_is_set(bmap', i) = bm_is_set(bmap, i)
       /\ \A j \in bm_size .. bm_size' - 1 :
            bm_is_set_ok(bmap', j) /\ ~bm_is_set(bmap', j)]_vars

\* resize(63); set(62, true); resize(64): bit 62 is still set and bit 63
\* reads clear
C17_Witness ==
  /\ bm_last.op = "resize"
  /\ ~bm_panicked
  /\ bm_size = 64
  /\ bm_ops = 3
  /\ bm_is_set(bmap, 62)
  /\ ~bm_is_set(bmap, 63)

(***************************************************************************)
(* Claims about FullFlatBinaryTree.                                        *)
(***************************************************************************)

\* C18: after any sequence of resize and set_leaf calls, get_first_empty_leaf
\* returns Some(i) where i is the smallest index below size with
\* get_leaf(i) = Some(false), and None when every leaf below size is full
\* (size 0 included); it never returns a phantom leaf index >= size.
C18_FirstEmptyLeaf ==
  ~ft_panicked =>
    /\ ft_get_first_empty_leaf(ft).ok
    /\ \A i \in 0 .. ft.size - 1 : ft_get_leaf(ft, i).ok /\ ft_get_leaf(ft, i).ret.some
    /\ ft_get_first_empty_leaf(ft).ret =
         IF FtFullLeaves(ft) = 0 .. ft.size - 1 THEN None
         ELSE Some(SetMin((0 .. ft.size - 1) \ FtFullLeaves(ft)))

\* a tree of 5 full leaves with capacity 8 after a resize: leaves 5..7 are
\* phantoms and get_first_empty_leaf returns None
C18_Witness ==
  /\ ~ft_panicked
  /\ ft_last.op = "resize"
  /\ ft.size = 5
  /\ ft.capacity = 8
  /\ FtFullLeaves(ft) = 0 .. 4
  /\ ft_get_first_empty_leaf(ft).ret = None

\* C19: resize(n) preserves get_leaf(i) for every i < min(old size, n),
\* across shrinks and grows and across changes of the capacity; every leaf in
\* [old size, n) reads Some(false) after a grow, also when it had been set
\* full before an earlier shrink; and every internal node still equals the
\* AND of the leaves beneath it, phantom leaves counting as empty.
C19_TreeResizeFrame ==
  [][ft_last'.op = "resize" =>
       /\ ~ft_panicked'
       /\ ft'.size = ft_last'.idx
       /\ \A i \in 0 .. ft.size - 1 :
            i < ft'.size => ft_get_leaf(ft', i) = ft_get_leaf(ft, i)
       /\ \A j \in ft.size .. ft'.size - 1 :
            ft_get_leaf(ft', j) = [ok |-> TRUE, ret |-> SomeB(FALSE)]
       /\ Len(ft'.tree) = ft'.capacity - 1
       /\ \A j \in 0 .. Len(ft'.tree) - 1 : j % 2 = 1 => FtNodeExact(ft', j)]_vars

\* a tree regrown to 8 leaves in its second operation, whose leaves 0..2 are
\* still full and whose leaves 3..7 read empty
C19_Witness ==
  /\ ~ft_panicked
  /\ ft_last.op = "resize"
  /\ ft_ops = 2
  /\ ft.size = 8
  /\ FtFullLeaves(ft) = 0 .. 2

\* C20: set_leaf(i, b) and get_leaf(i) with i >= size return None and leave
\* the tree unchanged, even when i is below the capacity; with i < size
\* set_leaf returns Some(()) and get_leaf afterwards returns Some(b).
C20_LeafBounds ==
  [][ft_last'.op = "set_leaf" =>
       /\ ~ft_panicked'
       /\ IF ft_last'.idx >= ft.size
          THEN /\ ft_last'.ret = None
               /\ ft' = ft
               /\ ft_get_leaf(ft', ft_last'.idx) = [ok |-> TRUE, ret |-> NoneB]
          ELSE /\ ft_last'.ret = SomeUnit
               /\ ft_get_leaf(ft', ft_last'.idx) = [ok |-> TRUE, ret |-> SomeB(ft_last'.val)]]_vars

\* set_leaf(7, true) on a tree of size 5 and capacity 8 returned None
C20_Witness ==
  /\ ~ft_panicked
  /\ ft_last.op = "set_leaf"
  /\ ft_last.idx = 7
  /\ ft_last.val = TRUE
  /\ ft_last.ret = None
  /\ ft.size = 5
  /\ ft.capacity = 8

(***************************************************************************)
(* Claims about NodeField.                                                 *)
(***************************************************************************)

\* C21: reference-count lifecycle of a slot.  push stores the data with
\* count 1; add_ref on an Occupied slot with a count below usize::MAX raises
\* the count by one; remove_ref on a
\* slot with count above 1 returns Ok(None), lowers the count and leaves
\* the data readable; remove_ref on a slot with count 1 returns
\* Ok(Some(data)) and frees the slot; remove_ref, add_ref, data and status
\* on a Free slot return Err(FreeMemory) and change nothing, until a push
\* reuses the index.
C21_RefCountLifecycle ==
  [][LET i == nf_last'.idx
         op == nf_last'.op
     IN /\ (op = "push" /\ ~nf_panicked') =>
             /\ NfOccupied(nf', i)
             /\ nf_data(nf', i).ret = Some(nf_last'.val)
             /\ nf_status(nf', i).ret = Some(1)
        /\ (op = "add_ref" /\ NfOccupied(nf, i) /\ At(nf.memory, i).rc < USIZE_MAX) =>
             /\ ~nf_panicked' /\ nf_last'.err = ""
             /\ nf_status(nf', i).ret = Some(At(nf.memory, i).rc + 1)
             /\ nf_data(nf', i).ret = nf_data(nf, i).ret
        /\ (op = "remove_ref" /\ NfOccupied(nf, i) /\ At(nf.memory, i).rc > 1) =>
             /\ ~nf_panicked' /\ nf_last'.err = "" /\ nf_last'.ret = None
             /\ nf_status(nf', i).ret = Some(At(nf.memory, i).rc - 1)
             /\ nf_data(nf', i).ret = nf_data(nf, i).ret
        /\ (op = "remove_ref" /\ NfOccupied(nf, i) /\ At(nf.memory, i).rc = 1) =>
             /\ ~nf_panicked' /\ nf_last'.err = ""
             /\ nf_last'.ret = Some(At(nf.memory, i).data)
             /\ NfFree(nf', i)
        /\ (op \in {"remove_ref", "add_ref", "data", "status"} /\ NfFree(nf, i)) =>
             /\ ~nf_panicked' /\ nf_last'.err = "FreeMemory" /\ nf_last'.ret = None
             /\ nf' = nf]_vars

\* the last remove_ref of a slot that had been given a second reference
\* returned its data and freed it, next to another Occupied slot
C21_Witness ==
  /\ ~nf_panicked
  /\ nf_last.op = "remove_ref"
  /\ nf_last.ret.some
  /\ NfFree(nf, nf_last.idx)
  /\ \E j \in 0 .. Len(nf.memory) - 1 : NfOccupied(nf, j) /\ At(nf.memory, j).rc = 2

\* C22: data, status, add_ref, remove_ref and replace report bad indices as
\* values and never panic: an index at or after the memory length gives
\* Err(OutOfBoundsMemory), also on an empty memory, a Free slot gives
\* Err(FreeMemory), and in both cases the NodeField is unchanged.
C22_BadIndexIsError ==
  [][nf_last'.op \in {"data", "status", "add_ref", "remove_ref", "replace"} =>
       /\ ~nf_panicked'
       /\ nf_last'.idx >= Len(nf.memory) =>
            nf_last'.err = "OutOfBoundsMemory" /\ nf' = nf
       /\ NfFree(nf, nf_last'.idx) =>
            nf_last'.err = "FreeMemory" /\ nf' = nf]_vars

\* the indices of the Free slots of f
NfFreeSet(f) == {i \in 0 .. Len(f.memory) - 1 : ~At(f.memory, i).occ}

\* the walk along the Free(next) links from slot i, having visited seen:
\* ok when it ends at a Free slot that points to itself without leaving
\* memory, meeting an Occupied slot or coming back to a visited slot
RECURSIVE NfWalk(_, _, _)
NfWalk(f, i, seen) ==
  IF i >= Len(f.memory) \/ i \in {seen[k] : k \in 1 .. Len(seen)} THEN [ok |-> FALSE, order |-> seen]
  ELSE IF At(f.memory, i).occ THEN [ok |-> FALSE, order |-> seen]
  ELSE IF At(f.memory, i).next = i THEN [ok |-> TRUE, order |-> Append(seen, i)]
  ELSE NfWalk(f, At(f.memory, i).next, Append(seen, i))

\* the free list hands out every Free slot, lowest index first, and then the
\* memory length
NfSorted(f) ==
  IF NfFreeSet(f) = {} THEN f.first_free = Len(f.memory)
  ELSE LET w == NfWalk(f, f.first_free, <<>>)
       IN /\ w.ok
          /\ {w.order[k] : k \in 1 .. Len(w.order)} = NfFreeSet(f)
          /\ \A k \in 1 .. Len(w.order) - 1 : w.order[k] < w.order[k + 1]

\* C23: repair_and_sort_allocator changes no Occupied slot and not which
\* slots are Free, and orders the free list; from then on, as long as no
\* slot is freed, every push returns the lowest Free index, or the memory
\* length once no Free slot remains, and the order is kept.
C23_RepairSortsAllocator ==
  [][/\ nf_last'.op = "repair" =>
          /\ ~nf_panicked'
          /\ Len(nf'.memory) = Len(nf.memory)
          /\ NfFreeSet(nf') = NfFreeSet(nf)
          /\ \A i \in 0 .. Len(nf.memory) - 1 :
               At(nf.memory, i).occ => At(nf'.memory, i) = At(nf.memory, i)
          /\ NfSorted(nf')
     /\ (nf_last'.op = "push" /\ NfSorted(nf)) =>
          /\ ~nf_panicked'
          /\ nf_last'.idx = IF NfFreeSet(nf) = {} THEN Len(nf.memory)
                            ELSE SetMin(NfFreeSet(nf))
          /\ NfFreeSet(nf') = NfFreeSet(nf) \ {nf_last'.idx}
     /\ (NfSorted(nf) /\ ~nf_panicked' /\ NfFreeSet(nf') \subseteq NfFreeSet(nf)
           /\ Len(nf'.memory) = Len(nf.memory) + (IF nf_last'.op = "push" /\ NfFreeSet(nf) = {} THEN 1 ELSE 0)) =>
          NfSorted(nf')]_vars

\* a repair of a three-slot memory whose slots 0 and 2 are Free: the list
\* leads from 0 to 2, which points to itself
C23_Witness ==
  /\ ~nf_panicked
  /\ nf_last.op = "repair"
  /\ Len(nf.memory) = 3
  /\ NfFreeSet(nf) = {0, 2}
  /\ nf.first_free = 0
  /\ At(nf.memory, 0).next = 2
  /\ At(nf.memory, 2).next = 2

\* NodeField::next_allocated
nf_next_allocated(f) == f.first_free

\* C24: in every reachable state next_allocated() is the index the next push
\* returns: the index of a Free slot when any slot is Free, and then push
\* reuses it and the memory does not grow; the memory length when no slot
\* is Free, and then push appends exactly one slot.
C24_NextAllocatedIsNextPush ==
  ~nf_panicked =>
    /\ nf_next_allocated(nf) \in (IF NfFreeSet(nf) = {} THEN {Len(nf.memory)} ELSE NfFreeSet(nf))
    /\ \A v \in Values :
         /\ nf_push(nf, v).ok
         /\ nf_push(nf, v).ret = Some(nf_next_allocated(nf))
         /\ Len(nf_push(nf, v).nf.memory) =
              Len(nf.memory) + (IF NfFreeSet(nf) = {} THEN 1 ELSE 0)

\* a push has just reused Free slot 1 of a three-slot memory, and
\* next_allocated() names the Free slot that is left
C24_Witness ==
  /\ ~nf_panicked
  /\ nf_last.op = "push"
  /\ nf_last.idx = 1
  /\ Len(nf.memory) = 3
  /\ NfFreeSet(nf) = {0}
  /\ nf_next_allocated(nf) = 0

\* C25: after a defrag that returns, the Occupied slots form a prefix of
\* memory, the memory length is unchanged, and for every index h that was
\* Occupied before the call, data and status at remap.get(h).unwrap_or(h)
\* return what data(h) and status(h) returned before the call.
C25_NfDefragDense ==
  [][(nf_last'.op = "defrag" /\ ~nf_panicked') =>
       /\ Len(nf'.memory) = Len(nf.memory)
       /\ \A i \in 0 .. Len(nf'.memory) - 1 :
            NfOccupied(nf', i) => \A j \in 0 .. i - 1 : NfOccupied(nf', j)
       /\ \A h \in 0 .. Len(nf.memory) - 1 :
            NfOccupied(nf, h) =>
              /\ nf_data(nf', Remapped(nf_last'.remap, h)).ret = nf_data(nf, h).ret
              /\ nf_data(nf', Remapped(nf_last'.remap, h)).err = ""
              /\ nf_status(nf', Remapped(nf_last'.remap, h)).ret = nf_status(nf, h).ret
              /\ nf_status(nf', Remapped(nf_last'.remap, h)).err = ""]_vars

\* a defrag moved the slot at index 2 into the Free slot 0, with its count
\* of 2
C25_Witness ==
  /\ ~nf_panicked
  /\ nf_last.op = "defrag"
  /\ nf_last.remap = MapInsert(EmptyMap, 2, 0)
  /\ NfFreeSet(nf) = {2}
  /\ At(nf.memory, 0).rc = 2

\* C26: after trim the memory length equals the number of slots that were
\* Occupied before the call, every remaining slot is Occupied and
\* next_allocated() equals the new length, so that the next push appends
\* there; trim does so also when all slots were Free and when the memory
\* was already empty.
C26_NfTrimToOccupied ==
  [][nf_last'.op = "trim" =>
       /\ NfFreeSet(nf) = 0 .. Len(nf.memory) - 1 => ~nf_panicked'
       /\ ~nf_panicked' =>
            /\ Len(nf'.memory) = Len(nf.memory) - Cardinality(NfFreeSet(nf))
            /\ NfFreeSet(nf') = {}
            /\ nf_next_allocated(nf') = Len(nf'.memory)
            /\ \A v \in Values : nf_push(nf', v).ret = Some(Len(nf'.memory))]_vars

\* C27: a reference-count operation that would wrap fails without effect:
\* add_ref on a slot whose count is usize::MAX returns
\* Err(OperationFailed) and the count, the slot and the rest of the
\* NodeField are unchanged; no add_ref ever lowers a count.
C27_AddRefSaturates ==
  [][(nf_last'.op = "add_ref" /\ NfOccupied(nf, nf_last'.idx)) =>
       /\ ~nf_panicked'
       /\ NfOccupied(nf', nf_last'.idx)
       /\ At(nf'.memory, nf_last'.idx).rc >= At(nf.memory, nf_last'.idx).rc
       /\ At(nf.memory, nf_last'.idx).rc = USIZE_MAX =>
            nf_last'.err = "OperationFailed" /\ nf' = nf]_vars

\* an add_ref was refused on a slot that holds usize::MAX references, in a
\* memory that has a second slot
C27_Witness ==
  /\ ~nf_panicked
  /\ nf_last.op = "add_ref"
  /\ nf_last.err = "OperationFailed"
  /\ At(nf.memory, nf_last.idx).rc = USIZE_MAX
  /\ Len(nf.memory) > 1

\* C28: the free list of a NodeField is well formed in every state reached
\* by push, add_ref, remove_ref, replace, repair_and_sort_allocator, defrag
\* and trim: first_free is at most the memory length and equals it exactly
\* when no slot is Free; otherwise the walk along the Free(next) links from
\* first_free stays inside memory, meets no Occupied slot, visits every Free
\* slot exactly once and ends at the one Free slot that points to itself.
C28_FreeListWellFormed ==
  ~nf_panicked =>
    /\ nf.first_free <= Len(nf.memory)
    /\ nf.first_free = Len(nf.memory) <=> NfFreeSet(nf) = {}
    /\ NfFreeSet(nf) # {} =>
         LET w == NfWalk(nf, nf.first_free, <<>>)
         IN /\ w.ok
            /\ {w.order[k] : k \in 1 .. Len(w.order)} = NfFreeSet(nf)
            /\ Len(w.order) = Cardinality(NfFreeSet(nf))
            /\ Cardinality({i \in NfFreeSet(nf) : At(nf.memory, i).next = i}) = 1

\* a remove_ref has put a slot in front of a free list of two other slots,
\* out of index order
C28_Witness ==
  /\ ~nf_panicked
  /\ nf_last.op = "remove_ref"
  /\ nf_last.ret.some
  /\ Cardinality(NfFreeSet(nf)) = 3
  /\ nf.first_free = 1
  /\ At(nf.memory, 1).next = 2
  /\ At(nf.memory, 2).next = 0

\* C29: shape of the remap returned by Pond::defrag.  With k the number of
\* occupied indices before the call, the keys are exactly the occupied
\* indices >= k and the values exactly the free indices < k; every key is
\* greater than its value, no two keys share a value and no index is both a
\* key and a value.
C29_DefragRemapShape ==
  [][(last'.op = "defrag" /\ ~pond_panicked') =>
       LET k == Cardinality(Occupied(pond))
           remap == last'.remap
           keys == DOMAIN remap
           values == {remap[j] : j \in keys}
       IN /\ keys = {i \in Occupied(pond) : i >= k}
          /\ values = {i \in 0 .. k - 1 : i \notin Occupied(pond)}
          /\ \A j \in keys : j > remap[j]
          /\ Cardinality(values) = Cardinality(keys)
          /\ keys \cap values = {}]_vars

\* C30: Pond::defrag leaves len() unchanged, and a defrag right after a
\* defrag returns an empty remap and changes no occupancy bit and no stored
\* value; a trim right after a trim changes nothing either.
C30_DefragTrimIdempotent ==
  [][/\ (last'.op = "defrag" /\ ~pond_panicked') => pond_len(pond') = pond_len(pond)
     /\ (last.op = "defrag" /\ last'.op = "defrag" /\ ~pond_panicked') =>
          /\ DOMAIN last'.remap = {}
          /\ Occupied(pond') = Occupied(pond)
          /\ \A i \in Occupied(pond) : pond_get(pond', i) = pond_get(pond, i)
     /\ (last.op = "trim" /\ last'.op = "trim" /\ ~pond_panicked') =>
          /\ DOMAIN last'.remap = {}
          /\ pond_len(pond') = pond_len(pond)
          /\ Occupied(pond') = Occupied(pond)
          /\ \A i \in Occupied(pond) : pond_get(pond', i) = pond_get(pond, i)]_vars

\* the indices of the values moved by the passes of the while loop of
\* Pond::defrag from the loop state st on, in the order of the moves, within
\* n passes
RECURSIVE pond_defrag_moves(_, _)
pond_defrag_moves(st, n) ==
  LET after(nx) == IF nx.done THEN <<>>
                   ELSE <<nx.full>> \o pond_defrag_moves(nx, n - 1)
  IN IF n <= 0 \/ st.done THEN <<>> ELSE after(pond_defrag_step(st))

\* the loop state of Pond::defrag on entry to the while loop
pond_defrag_start(p) ==
  [ok |-> TRUE, done |-> FALSE, p |-> p, full |-> pond_len(p), last_full |-> pond_len(p),
   remap |-> EmptyMap]

\* C31: Pond::defrag and Pond::trim return without panicking from every
\* reachable Pond; the while loop of defrag ends within len() + 1 passes,
\* the index of the value moved decreases strictly from one pass to the
\* next, and there are at most as many moves as occupied indices.
C31_DefragTrimTotal ==
  /\ last.op \in {"defrag", "trim"} => ~pond_panicked
  /\ (~pond_panicked /\ last.op # "drop" /\ pond_len(pond) > 0) =>
       LET moves == pond_defrag_moves(pond_defrag_start(pond), pond_len(pond) + 1)
           final == pond_defrag_loop(pond_defrag_start(pond), pond_len(pond) + 1)
       IN /\ final.done /\ final.ok
          /\ pond_trim(pond).ok
          /\ \A j \in 1 .. Len(moves) - 1 : moves[j + 1] < moves[j]
          /\ Len(moves) <= Cardinality(Occupied(pond))
          /\ Len(moves) = Cardinality(DOMAIN final.remap)

\* C8: NodeField::defrag and NodeField::trim return normally from every
\* reachable state, for every memory length, 0 and 1 included.
C8_NfDefragTrimTotal ==
  nf_last.op \in {"defrag", "trim"} => ~nf_panicked

====
